---- MODULE Spec2Model ----
(***************************************************************************)
(* Model of zoomsi's recording engine (src/recorder.py, ScreenRecorder).   *)
(*                                                                         *)
(* The recorder object is shared by the threads that call start(), stop(), *)
(* pause() and resume() (main_app.py runs start() and stop() on threads of *)
(* their own), by the capture worker and the mouse monitor thread that     *)
(* every successful start() spawns, and by the callbacks of the input      *)
(* listeners.  Every thread has a program counter; an action is the code   *)
(* one thread runs between two points where another thread's step can      *)
(* change what it does next.                                               *)
(***************************************************************************)
EXTENDS Integers, Sequences, FiniteSets, TLC

\* ------------------------------------------------------------------ bounds
NumCallers == 2   \* threads that call the public operations
MaxStarts  == 2   \* start() calls that get past the "already recording" check
MaxTime    == 1   \* largest value the clock reaches
MaxLog     == 2   \* input events accepted by on_event in one run
MaxEvents  == 3   \* events in a metadata file (the scenario files aside)
MaxUpdates == 2   \* Camera.update() calls on one camera driven by hand
MaxPending == 2   \* threads and queued callbacks of the control panel

Callers == 1..NumCallers
Gens    == 1..MaxStarts    \* the n-th start(): its handles and its workers

None == 0                  \* Python's None for a handle or for an empty list

VARIABLES
    \* ScreenRecorder fields (recorder.py 18-33)
    is_recording, is_paused, start_time,
    stop_event, pause_event,
    write_lock,     \* None, or the capture worker that holds _write_lock
    camera, video_writer, mouse_listener,
    mouse_events,   \* sequence of [time, by]: by is the listener that appended
    threads,        \* None for [], else g for the two threads start g created
    \* collaborators
    camState,       \* dxcam camera g: "unborn", "open", "stopped", "stopped_twice"
    sinkState,      \* cv2.VideoWriter g: "unborn", "unopened", "open", "released"
    lisRunning,     \* pynput listener g is delivering callbacks
    metaFile,       \* the metadata file: <<>> if never written, else <<contents>>
    now,            \* the last value time.time() returned
    \* caller threads
    pc,             \* where caller c is inside start() or stop(); "idle" outside
    gen,            \* start(): the call's number; stop(): the session it stops
    saved,          \* stop(): "yes"/"no" once the metadata write was attempted
    last,           \* the call that returned last: [op, ret]
    \* worker threads of start g
    capPc, capCam,  \* capture worker; the camera whose get_latest_frame it is in
    capSink,        \* the writer whose write() the capture worker is in
    monPc,          \* mouse monitor thread
    cbPc, cbTime,   \* the on_event callback in flight and its elapsed time
    \* history
    nStarts,        \* start() calls that passed the check so far
    session,        \* the start whose "Reset state" ran last (0: none yet)
    writes,         \* per session: attempts to write the metadata file (0, 1, 2+)
    nEvents,        \* events on_event has accepted so far
    \* ControlPanel (main_app.py 14-40)
    app_is_recording, \* ControlPanel.is_recording
    app_buttons,    \* "ready": Start enabled; "recording": Pause and Stop
                    \* enabled; "stopping": all three disabled
    app_thread,     \* per caller thread: "none", or "start"/"stop" for a
                    \* start_thread/stop_thread of the panel
    app_after,      \* the callbacks queued with after(0, ...): [op, success]
    \* EditorApp fields (editor.py 79-83)
    clip,           \* None, or [duration, fps, w, h]; duration in ticks
    metadata,       \* the loaded event list: sequence of [type, time, x, y]
    zoom_points,    \* list of times, in ticks
    current_frame_idx,
    is_rendering,
    ui_state,       \* "normal" or "disabled": the four buttons and the slider
    \* render_video locals (editor.py 371-396) and a Camera driven by hand
    cam,            \* None, or the Camera object: its six fields and frame size
    processed_frames, \* the number of frames render_video has appended
    iter_clip,      \* the clip whose frames render_video's loop iterates
    renPc,          \* render job: "idle", "begin", "frames", "done"
    \* history of the editor
    edLast,         \* the planner operation that ran last and what it did
    camStart,       \* the camera's x, y, zoom when its target was last set, and
                    \* the arguments set_target was given
    nHeld,          \* update() calls since the target was last set
    nUpdates,       \* update() calls on this camera
    crop            \* the crop window process_frame computed last

recVars == <<is_recording, is_paused, start_time, stop_event, pause_event,
             write_lock, camera, video_writer, mouse_listener, mouse_events,
             threads>>
envVars == <<camState, sinkState, lisRunning, metaFile, now>>
thrVars == <<pc, gen, saved, last, capPc, capCam, capSink, monPc, cbPc, cbTime>>
histVars == <<nStarts, session, writes, nEvents>>
appVars == <<app_is_recording, app_buttons, app_thread, app_after>>
edVars == <<clip, metadata, zoom_points, current_frame_idx, is_rendering,
           ui_state>>
camVars == <<cam, processed_frames, iter_clip, renPc>>
edHistVars == <<edLast, camStart, nHeld, nUpdates, crop>>
vars == <<recVars, envVars, thrVars, histVars, appVars, edVars, camVars,
          edHistVars>>

\* The session states of the specification, read off the recorder's flags.
Idle      == ~is_recording
Recording == is_recording /\ ~is_paused
Paused    == is_recording /\ is_paused

Inc2(n) == IF n < 2 THEN n + 1 ELSE 2     \* a counter that saturates at 2

\* time.time(): never earlier than the previous reading.
ClockReadings == {t \in {now, now + 1} : t <= MaxTime}

\* Caller threads are interchangeable: a new call runs on the first idle
\* one; a thread the control panel started makes the call it was started for.
CanCall(c) ==
    /\ pc[c] = "idle"
    /\ app_thread[c] # "none" \/ \A d \in Callers : d < c => pc[d] # "idle"

Returned(o, r) == [op |-> o, ret |-> r]

\* main_app.py 71, 110: a thread of the control panel queues the result of
\* its call for the UI thread; a call made by any other thread queues nothing.
ReportTo(c, ok) ==
    IF app_thread[c] = "none" THEN app_after
    ELSE Append(app_after, [op |-> app_thread[c], success |-> ok])

\* A faulty test of the writer: it forgets isOpened().
SinkPresent == video_writer # None

\* recorder.py 68: "self.video_writer and self.video_writer.isOpened()".
SinkOpen == video_writer # None /\ sinkState[video_writer] = "open"

\* ScreenRecorder.__init__ (recorder.py 18-33) and the threads not yet born.
InitRecorder ==
    /\ is_recording = FALSE /\ is_paused = FALSE /\ start_time = 0
    /\ stop_event = FALSE /\ pause_event = TRUE /\ write_lock = None
    /\ camera = None /\ video_writer = None /\ mouse_listener = None
    /\ mouse_events = <<>> /\ threads = None
    /\ camState = [g \in Gens |-> "unborn"]
    /\ sinkState = [g \in Gens |-> "unborn"]
    /\ lisRunning = [g \in Gens |-> FALSE]
    /\ metaFile = <<>>
    /\ now = 0
    /\ pc = [c \in Callers |-> "idle"]
    /\ gen = [c \in Callers |-> 0]
    /\ saved = [c \in Callers |-> "none"]
    /\ last = Returned("none", "none")
    /\ capPc = [g \in Gens |-> "unborn"]
    /\ capCam = [g \in Gens |-> None]
    /\ capSink = [g \in Gens |-> None]
    /\ monPc = [g \in Gens |-> "unborn"]
    /\ cbPc = [g \in Gens |-> "idle"]
    /\ cbTime = [g \in Gens |-> 0]
    /\ nStarts = 0 /\ session = 0
    /\ writes = [g \in Gens |-> 0]
    /\ nEvents = 0
    /\ app_is_recording = FALSE /\ app_buttons = "ready"
    /\ app_thread = [c \in Callers |-> "none"]
    /\ app_after = <<>>

\* "No clip", "no camera", "no crop yet": the falsy values of the editor.
NoClip == [duration |-> 0, fps |-> 0, w |-> 0, h |-> 0]
NoCamera == [screen_width |-> 0, screen_height |-> 0, x |-> 0, y |-> 0,
             zoom |-> 0, target_x |-> 0, target_y |-> 0, target_zoom |-> 0]
NoCrop == [crop_x |-> 0, crop_y |-> 0, crop_w |-> 0, crop_h |-> 0,
           w |-> 0, h |-> 0, out |-> "none"]
NoPoint == [x |-> 0, y |-> 0, zoom |-> 0, arg_x |-> 0, arg_y |-> 0, arg_zoom |-> 0]
Did(o, a, b, n) == [op |-> o, arg |-> a, before |-> b, count |-> n]

\* EditorApp.__init__ without a clip (editor.py 79-90); no camera exists.
InitEditor ==
    /\ clip = NoClip /\ metadata = <<>> /\ zoom_points = <<>>
    /\ current_frame_idx = 0 /\ is_rendering = FALSE /\ ui_state = "disabled"
    /\ cam = NoCamera /\ processed_frames = 0 /\ iter_clip = NoClip
    /\ renPc = "idle"
    /\ edLast = Did("none", <<>>, <<>>, 0)
    /\ camStart = NoPoint /\ nHeld = 0 /\ nUpdates = 0 /\ crop = NoCrop

Init == InitRecorder /\ InitEditor

\* ---------------------------------------------------------------- start()
\* recorder.py 136: "if self.is_recording" turns a start() away.
StartRefused == is_recording

\* recorder.py 136-147: the "already recording" check; a call that passes it
\* is the n-th start and goes on to dxcam.create(), which returns a camera,
\* returns None, or raises (then self.camera keeps its old value).
StartCall(c) ==
    /\ CanCall(c)
    /\ IF StartRefused
       THEN /\ last' = Returned("start", "fail")
            /\ app_after' = ReportTo(c, FALSE)
            /\ app_thread' = [app_thread EXCEPT ![c] = "none"]
            /\ UNCHANGED <<pc, gen, nStarts, camera, camState>>
       ELSE /\ nStarts < MaxStarts
            /\ UNCHANGED <<app_after, app_thread>>
            /\ nStarts' = nStarts + 1
            /\ gen' = [gen EXCEPT ![c] = nStarts + 1]
            /\ UNCHANGED last
            /\ \E outcome \in {"ok", "none", "raise"} :
                /\ camera' = CASE outcome = "ok" -> nStarts + 1
                               [] outcome = "none" -> None
                               [] outcome = "raise" -> camera
                /\ camState' = IF outcome = "ok"
                               THEN [camState EXCEPT ![nStarts + 1] = "open"]
                               ELSE camState
                /\ pc' = [pc EXCEPT ![c] = IF outcome = "ok" THEN "start_writer"
                                                            ELSE "cleanup_writer"]
    /\ UNCHANGED <<is_recording, is_paused, start_time, stop_event,
                   pause_event, write_lock, video_writer, mouse_listener,
                   mouse_events, threads, sinkState, lisRunning, metaFile,
                   now, saved, capPc, capCam, capSink, monPc, cbPc, cbTime,
                   session, writes, nEvents, app_is_recording, app_buttons,
                   clip, metadata, zoom_points, current_frame_idx,
                   is_rendering, ui_state, cam, processed_frames, iter_clip,
                   renPc, edLast, camStart, nHeld, nUpdates, crop>>

\* recorder.py 150-154: cv2.VideoWriter(...) yields an opened writer or one
\* that failed to open, or raises; without an opened writer start() gives up.
StartWriter(c) ==
    /\ pc[c] = "start_writer"
    /\ \E outcome \in {"open", "unopened", "raise"} :
        /\ video_writer' = IF outcome = "raise" THEN video_writer ELSE gen[c]
        /\ sinkState' = IF outcome = "raise" THEN sinkState
                        ELSE [sinkState EXCEPT ![gen[c]] = outcome]
        /\ pc' = [pc EXCEPT ![c] = IF outcome = "open" THEN "start_reset"
                                                      ELSE "cleanup_writer"]
    /\ UNCHANGED <<is_recording, is_paused, start_time, stop_event,
                   pause_event, write_lock, camera, mouse_listener,
                   mouse_events, threads, camState, lisRunning, metaFile,
                   now, gen, saved, last, capPc, capCam, capSink, monPc,
                   cbPc, cbTime, nStarts, session, writes, nEvents,
                   app_is_recording, app_buttons, app_thread, app_after,
                   clip, metadata, zoom_points, current_frame_idx,
                   is_rendering, ui_state, cam, processed_frames, iter_clip,
                   renPc, edLast, camStart, nHeld, nUpdates, crop>>

\* recorder.py 157-162: "Reset state".
StartReset(c) ==
    /\ pc[c] = "start_reset"
    /\ is_recording' = TRUE
    /\ is_paused' = FALSE
    /\ \E t \in ClockReadings : now' = t /\ start_time' = t
    /\ mouse_events' = <<>>
    /\ stop_event' = FALSE
    /\ pause_event' = TRUE
    /\ session' = gen[c]
    /\ pc' = [pc EXCEPT ![c] = "start_spawn"]
    /\ UNCHANGED <<write_lock, camera, video_writer, mouse_listener, threads,
                   camState, sinkState, lisRunning, metaFile, gen, saved,
                   last, capPc, capCam, capSink, monPc, cbPc, cbTime,
                   nStarts, writes, nEvents, app_is_recording, app_buttons,
                   app_thread, app_after, clip, metadata, zoom_points,
                   current_frame_idx, is_rendering, ui_state, cam,
                   processed_frames, iter_clip, renPc, edLast, camStart,
                   nHeld, nUpdates, crop>>

\* recorder.py 165-174: build the thread list, start both threads, return True.
StartSpawn(c) ==
    /\ pc[c] = "start_spawn"
    /\ threads' = gen[c]
    /\ capPc' = [capPc EXCEPT ![gen[c]] = "loop"]
    /\ monPc' = [monPc EXCEPT ![gen[c]] = "enter"]
    /\ pc' = [pc EXCEPT ![c] = "idle"]
    /\ gen' = [gen EXCEPT ![c] = 0]
    /\ last' = Returned("start", "ok")
    /\ app_after' = ReportTo(c, TRUE)
    /\ app_thread' = [app_thread EXCEPT ![c] = "none"]
    /\ UNCHANGED <<is_recording, is_paused, start_time, stop_event,
                   pause_event, write_lock, camera, video_writer,
                   mouse_listener, mouse_events, camState, sinkState,
                   lisRunning, metaFile, now, saved, capCam, capSink, cbPc,
                   cbTime, nStarts, session, writes, nEvents,
                   app_is_recording, app_buttons, clip, metadata,
                   zoom_points, current_frame_idx, is_rendering, ui_state,
                   cam, processed_frames, iter_clip, renPc, edLast, camStart,
                   nHeld, nUpdates, crop>>

\* recorder.py 256-262 (_cleanup_resources, called at 178): under the write
\* lock, release the writer if there is one and forget it.
CleanupWriter(c) ==
    /\ pc[c] = "cleanup_writer"
    /\ write_lock = None
    /\ IF video_writer # None
       THEN /\ sinkState' = [sinkState EXCEPT ![video_writer] = "released"]
            /\ video_writer' = None
       ELSE UNCHANGED <<sinkState, video_writer>>
    /\ pc' = [pc EXCEPT ![c] = "cleanup_cam"]
    /\ UNCHANGED <<is_recording, is_paused, start_time, stop_event,
                   pause_event, write_lock, camera, mouse_listener,
                   mouse_events, threads, camState, lisRunning, metaFile,
                   now, gen, saved, last, capPc, capCam, capSink, monPc,
                   cbPc, cbTime, nStarts, session, writes, nEvents,
                   app_is_recording, app_buttons, app_thread, app_after,
                   clip, metadata, zoom_points, current_frame_idx,
                   is_rendering, ui_state, cam, processed_frames, iter_clip,
                   renPc, edLast, camStart, nHeld, nUpdates, crop>>

\* A camera that receives stop().
StopCamera(h) ==
    [camState EXCEPT ![h] = IF @ = "open" THEN "stopped" ELSE "stopped_twice"]

\* recorder.py 264-269, 179-180: stop the camera if there is one and forget
\* it, clear is_recording and return False.
CleanupCamera(c) ==
    /\ pc[c] = "cleanup_cam"
    /\ camState' = IF camera # None THEN StopCamera(camera) ELSE camState
    /\ camera' = None
    /\ is_recording' = FALSE
    /\ pc' = [pc EXCEPT ![c] = "idle"]
    /\ gen' = [gen EXCEPT ![c] = 0]
    /\ last' = Returned("start", "fail")
    /\ app_after' = ReportTo(c, FALSE)
    /\ app_thread' = [app_thread EXCEPT ![c] = "none"]
    /\ UNCHANGED <<is_paused, start_time, stop_event, pause_event,
                   write_lock, video_writer, mouse_listener, mouse_events,
                   threads, sinkState, lisRunning, metaFile, now, saved,
                   capPc, capCam, capSink, monPc, cbPc, cbTime, nStarts,
                   session, writes, nEvents, app_is_recording, app_buttons,
                   clip, metadata, zoom_points, current_frame_idx,
                   is_rendering, ui_state, cam, processed_frames, iter_clip,
                   renPc, edLast, camStart, nHeld, nUpdates, crop>>

\* ----------------------------------------------------------------- stop()
\* A faulty stop() test: it consults the stop event, not is_recording.
StopRefusedByEvent == stop_event

\* recorder.py 184: "if not self.is_recording" turns a stop() away.
StopRefused == ~is_recording

\* recorder.py 184-211: the "not recording" check; then set the stop event,
\* open the pause gate if paused, stop the listener the monitor thread has
\* published, and join the threads of self._threads for at most 3 s each.  A
\* join returns when its thread has finished or when the timeout expires, so
\* the caller goes on whatever the threads are doing.
StopCall(c) ==
    /\ CanCall(c)
    /\ IF StopRefused
       THEN /\ last' = Returned("stop", "fail")
            /\ app_after' = ReportTo(c, FALSE)
            /\ app_thread' = [app_thread EXCEPT ![c] = "none"]
            /\ UNCHANGED <<pc, gen, stop_event, pause_event, is_paused, lisRunning>>
       ELSE /\ stop_event' = TRUE
            /\ UNCHANGED <<app_after, app_thread>>
            /\ pause_event' = IF is_paused THEN TRUE ELSE pause_event
            /\ is_paused' = FALSE
            /\ lisRunning' = IF mouse_listener # None
                             THEN [lisRunning EXCEPT ![mouse_listener] = FALSE]
                             ELSE lisRunning
            /\ gen' = [gen EXCEPT ![c] = session]
            /\ pc' = [pc EXCEPT ![c] = "stop_writer"]
            /\ UNCHANGED last
    /\ UNCHANGED <<is_recording, start_time, write_lock, camera,
                   video_writer, mouse_listener, mouse_events, threads,
                   camState, sinkState, metaFile, now, saved, capPc, capCam,
                   capSink, monPc, cbPc, cbTime, nStarts, session, writes,
                   nEvents, app_is_recording, app_buttons, clip, metadata,
                   zoom_points, current_frame_idx, is_rendering, ui_state,
                   cam, processed_frames, iter_clip, renPc, edLast, camStart,
                   nHeld, nUpdates, crop>>

\* recorder.py 215-224: under the write lock, release the writer if it is
\* still open and forget it.
StopWriter(c) ==
    /\ pc[c] = "stop_writer"
    /\ write_lock = None
    /\ IF video_writer # None
       THEN /\ sinkState' = IF sinkState[video_writer] = "open"
                            THEN [sinkState EXCEPT ![video_writer] = "released"]
                            ELSE sinkState
            /\ video_writer' = None
       ELSE UNCHANGED <<sinkState, video_writer>>
    /\ pc' = [pc EXCEPT ![c] = "stop_cam"]
    /\ UNCHANGED <<is_recording, is_paused, start_time, stop_event,
                   pause_event, write_lock, camera, mouse_listener,
                   mouse_events, threads, camState, lisRunning, metaFile,
                   now, gen, saved, last, capPc, capCam, capSink, monPc,
                   cbPc, cbTime, nStarts, session, writes, nEvents,
                   app_is_recording, app_buttons, app_thread, app_after,
                   clip, metadata, zoom_points, current_frame_idx,
                   is_rendering, ui_state, cam, processed_frames, iter_clip,
                   renPc, edLast, camStart, nHeld, nUpdates, crop>>

\* recorder.py 227-232: if there is a camera, stop it.
StopCamStop(c) ==
    /\ pc[c] = "stop_cam"
    /\ camState' = IF camera # None THEN StopCamera(camera) ELSE camState
    /\ pc' = [pc EXCEPT ![c] = IF camera # None THEN "stop_cam_none"
                                               ELSE "stop_save"]
    /\ UNCHANGED <<is_recording, is_paused, start_time, stop_event,
                   pause_event, write_lock, camera, video_writer,
                   mouse_listener, mouse_events, threads, sinkState,
                   lisRunning, metaFile, now, gen, saved, last, capPc,
                   capCam, capSink, monPc, cbPc, cbTime, nStarts, session,
                   writes, nEvents, app_is_recording, app_buttons,
                   app_thread, app_after, clip, metadata, zoom_points,
                   current_frame_idx, is_rendering, ui_state, cam,
                   processed_frames, iter_clip, renPc, edLast, camStart,
                   nHeld, nUpdates, crop>>

\* recorder.py 233-234: finally self.camera = None.
StopCamNone(c) ==
    /\ pc[c] = "stop_cam_none"
    /\ camera' = None
    /\ pc' = [pc EXCEPT ![c] = "stop_save"]
    /\ UNCHANGED <<is_recording, is_paused, start_time, stop_event,
                   pause_event, write_lock, video_writer, mouse_listener,
                   mouse_events, threads, camState, sinkState, lisRunning,
                   metaFile, now, gen, saved, last, capPc, capCam, capSink,
                   monPc, cbPc, cbTime, nStarts, session, writes, nEvents,
                   app_is_recording, app_buttons, app_thread, app_after,
                   clip, metadata, zoom_points, current_frame_idx,
                   is_rendering, ui_state, cam, processed_frames, iter_clip,
                   renPc, edLast, camStart, nHeld, nUpdates, crop>>

\* recorder.py 237-242: open the metadata file and dump self.mouse_events; a
\* failure is caught and printed.  ok is whether the write went through.
StopSave(c) ==
    /\ pc[c] = "stop_save"
    /\ \E ok \in BOOLEAN :
        /\ metaFile' = IF ok THEN <<mouse_events>> ELSE metaFile
        /\ saved' = [saved EXCEPT ![c] = IF ok THEN "yes" ELSE "no"]
    /\ writes' = IF gen[c] # 0 THEN [writes EXCEPT ![gen[c]] = Inc2(@)] ELSE writes
    /\ pc' = [pc EXCEPT ![c] = "stop_reset"]
    /\ UNCHANGED <<is_recording, is_paused, start_time, stop_event,
                   pause_event, write_lock, camera, video_writer,
                   mouse_listener, mouse_events, threads, camState,
                   sinkState, lisRunning, now, gen, last, capPc, capCam,
                   capSink, monPc, cbPc, cbTime, nStarts, session, nEvents,
                   app_is_recording, app_buttons, app_thread, app_after,
                   clip, metadata, zoom_points, current_frame_idx,
                   is_rendering, ui_state, cam, processed_frames, iter_clip,
                   renPc, edLast, camStart, nHeld, nUpdates, crop>>

\* recorder.py 252: what stop() returns after a write that ended as s.
StopResult(s) == "ok"

\* recorder.py 245-252: "Reset state" and return True.
StopReset(c) ==
    /\ pc[c] = "stop_reset"
    /\ is_recording' = FALSE
    /\ is_paused' = FALSE
    /\ mouse_events' = <<>>
    /\ threads' = None
    /\ mouse_listener' = None
    /\ last' = Returned("stop", StopResult(saved[c]))
    /\ app_after' = ReportTo(c, StopResult(saved[c]) = "ok")
    /\ app_thread' = [app_thread EXCEPT ![c] = "none"]
    /\ pc' = [pc EXCEPT ![c] = "idle"]
    /\ gen' = [gen EXCEPT ![c] = 0]
    /\ saved' = [saved EXCEPT ![c] = "none"]
    /\ UNCHANGED <<start_time, stop_event, pause_event, write_lock, camera,
                   video_writer, camState, sinkState, lisRunning, metaFile,
                   now, capPc, capCam, capSink, monPc, cbPc, cbTime, nStarts,
                   session, writes, nEvents, app_is_recording, app_buttons,
                   clip, metadata, zoom_points, current_frame_idx,
                   is_rendering, ui_state, cam, processed_frames, iter_clip,
                   renPc, edLast, camStart, nHeld, nUpdates, crop>>

\* ------------------------------------------------------- pause(), resume()
\* A faulty pause() test: it forgets to look at is_paused.
PauseAllowedIfRecording == is_recording

\* A faulty pause(): it sets the stop event instead of closing the pause gate.
PauseByStopEvent(c) ==
    /\ CanCall(c)
    /\ IF is_recording /\ ~is_paused
       THEN /\ is_paused' = TRUE
            /\ stop_event' = TRUE
            /\ last' = Returned("pause", "ok")
       ELSE /\ last' = Returned("pause", "fail")
            /\ UNCHANGED <<is_paused, stop_event>>
    /\ UNCHANGED <<is_recording, start_time, pause_event, write_lock, camera,
                   video_writer, mouse_listener, mouse_events, threads,
                   camState, sinkState, lisRunning, metaFile, now, pc, gen,
                   saved, capPc, capCam, capSink, monPc, cbPc, cbTime,
                   nStarts, session, writes, nEvents, app_is_recording,
                   app_buttons, app_thread, app_after, clip, metadata,
                   zoom_points, current_frame_idx, is_rendering, ui_state,
                   cam, processed_frames, iter_clip, renPc, edLast, camStart,
                   nHeld, nUpdates, crop>>

\* recorder.py 272: the test of pause().
PauseAllowed == is_recording /\ ~is_paused

\* recorder.py 271-277.
Pause(c) ==
    /\ CanCall(c)
    /\ IF PauseAllowed
       THEN /\ is_paused' = TRUE
            /\ pause_event' = FALSE
            /\ last' = Returned("pause", "ok")
       ELSE /\ last' = Returned("pause", "fail")
            /\ UNCHANGED <<is_paused, pause_event>>
    /\ UNCHANGED <<is_recording, start_time, stop_event, write_lock, camera,
                   video_writer, mouse_listener, mouse_events, threads,
                   camState, sinkState, lisRunning, metaFile, now, pc, gen,
                   saved, capPc, capCam, capSink, monPc, cbPc, cbTime,
                   nStarts, session, writes, nEvents, app_is_recording,
                   app_buttons, app_thread, app_after, clip, metadata,
                   zoom_points, current_frame_idx, is_rendering, ui_state,
                   cam, processed_frames, iter_clip, renPc, edLast, camStart,
                   nHeld, nUpdates, crop>>

\* recorder.py 280: the test of resume().
ResumeAllowed == is_recording /\ is_paused

\* recorder.py 279-285.
Resume(c) ==
    /\ CanCall(c)
    /\ IF ResumeAllowed
       THEN /\ is_paused' = FALSE
            /\ pause_event' = TRUE
            /\ last' = Returned("resume", "ok")
       ELSE /\ last' = Returned("resume", "fail")
            /\ UNCHANGED <<is_paused, pause_event>>
    /\ UNCHANGED <<is_recording, start_time, stop_event, write_lock, camera,
                   video_writer, mouse_listener, mouse_events, threads,
                   camState, sinkState, lisRunning, metaFile, now, pc, gen,
                   saved, capPc, capCam, capSink, monPc, cbPc, cbTime,
                   nStarts, session, writes, nEvents, app_is_recording,
                   app_buttons, app_thread, app_after, clip, metadata,
                   zoom_points, current_frame_idx, is_rendering, ui_state,
                   cam, processed_frames, iter_clip, renPc, edLast, camStart,
                   nHeld, nUpdates, crop>>

\* ---------------------------------------------------------- capture worker
\* recorder.py 54-65: leave the loop when the stop event is set; while the
\* pause gate is closed, wait 0.1 s for the stop event and look again; else
\* enter self.camera.get_latest_frame() on the camera self.camera holds (if it
\* holds None the AttributeError ends the loop, 71-73).
CapLoop(g) ==
    /\ capPc[g] = "loop"
    /\ stop_event \/ pause_event
    /\ IF stop_event \/ camera = None
       THEN capPc' = [capPc EXCEPT ![g] = "finally"] /\ UNCHANGED capCam
       ELSE /\ capPc' = [capPc EXCEPT ![g] = "in_capture"]
            /\ capCam' = [capCam EXCEPT ![g] = camera]
    /\ UNCHANGED <<is_recording, is_paused, start_time, stop_event,
                   pause_event, write_lock, camera, video_writer,
                   mouse_listener, mouse_events, threads, camState,
                   sinkState, lisRunning, metaFile, now, pc, gen, saved,
                   last, capSink, monPc, cbPc, cbTime, nStarts, session,
                   writes, nEvents, app_is_recording, app_buttons,
                   app_thread, app_after, clip, metadata, zoom_points,
                   current_frame_idx, is_rendering, ui_state, cam,
                   processed_frames, iter_clip, renPc, edLast, camStart,
                   nHeld, nUpdates, crop>>

\* recorder.py 65-68, 71-73: the call returns None, raises, or returns a
\* frame; with a frame the worker takes the write lock and, if the writer is
\* open, goes on to write while holding the lock.
CapFrame(g) ==
    /\ capPc[g] = "in_capture"
    /\ capCam' = [capCam EXCEPT ![g] = None]
    /\ \E outcome \in {"frame", "none", "raise"} :
        CASE outcome = "none" ->
                capPc' = [capPc EXCEPT ![g] = "loop"]
                /\ UNCHANGED <<write_lock, capSink>>
          [] outcome = "raise" ->
                capPc' = [capPc EXCEPT ![g] = "finally"]
                /\ UNCHANGED <<write_lock, capSink>>
          [] outcome = "frame" ->
                /\ write_lock = None
                /\ IF SinkOpen
                   THEN /\ write_lock' = g
                        /\ capSink' = [capSink EXCEPT ![g] = video_writer]
                        /\ capPc' = [capPc EXCEPT ![g] = "in_write"]
                   ELSE /\ UNCHANGED <<write_lock, capSink>>
                        /\ capPc' = [capPc EXCEPT ![g] = "loop"]
    /\ UNCHANGED <<is_recording, is_paused, start_time, stop_event,
                   pause_event, camera, video_writer, mouse_listener,
                   mouse_events, threads, camState, sinkState, lisRunning,
                   metaFile, now, pc, gen, saved, last, monPc, cbPc, cbTime,
                   nStarts, session, writes, nEvents, app_is_recording,
                   app_buttons, app_thread, app_after, clip, metadata,
                   zoom_points, current_frame_idx, is_rendering, ui_state,
                   cam, processed_frames, iter_clip, renPc, edLast, camStart,
                   nHeld, nUpdates, crop>>

\* recorder.py 69-73, 76-85: the write returns or raises; either way the lock
\* is given back.  The pacing sleep that follows touches no shared state.
CapWrite(g) ==
    /\ capPc[g] = "in_write"
    /\ write_lock' = None
    /\ capSink' = [capSink EXCEPT ![g] = None]
    /\ \E raised \in BOOLEAN :
        capPc' = [capPc EXCEPT ![g] = IF raised THEN "finally" ELSE "loop"]
    /\ UNCHANGED <<is_recording, is_paused, start_time, stop_event,
                   pause_event, camera, video_writer, mouse_listener,
                   mouse_events, threads, camState, sinkState, lisRunning,
                   metaFile, now, pc, gen, saved, last, capCam, monPc, cbPc,
                   cbTime, nStarts, session, writes, nEvents,
                   app_is_recording, app_buttons, app_thread, app_after,
                   clip, metadata, zoom_points, current_frame_idx,
                   is_rendering, ui_state, cam, processed_frames, iter_clip,
                   renPc, edLast, camStart, nHeld, nUpdates, crop>>

\* recorder.py 89-99: finally, under the write lock, release the writer if
\* it is open and forget it.
CapFinally(g) ==
    /\ capPc[g] = "finally"
    /\ write_lock = None
    /\ IF SinkOpen
       THEN /\ sinkState' = [sinkState EXCEPT ![video_writer] = "released"]
            /\ video_writer' = None
       ELSE UNCHANGED <<sinkState, video_writer>>
    /\ capPc' = [capPc EXCEPT ![g] = "done"]
    /\ UNCHANGED <<is_recording, is_paused, start_time, stop_event,
                   pause_event, write_lock, camera, mouse_listener,
                   mouse_events, threads, camState, lisRunning, metaFile,
                   now, pc, gen, saved, last, capCam, capSink, monPc, cbPc,
                   cbTime, nStarts, session, writes, nEvents,
                   app_is_recording, app_buttons, app_thread, app_after,
                   clip, metadata, zoom_points, current_frame_idx,
                   is_rendering, ui_state, cam, processed_frames, iter_clip,
                   renPc, edLast, camStart, nHeld, nUpdates, crop>>

\* ------------------------------------------------------ mouse monitor thread
\* recorder.py 121-123, 129-130: enter the listener and publish it in
\* self.mouse_listener; a listener that cannot be created ends the thread.
MonEnter(g) ==
    /\ monPc[g] = "enter"
    /\ \E raised \in BOOLEAN :
        IF raised
        THEN /\ monPc' = [monPc EXCEPT ![g] = "done"]
             /\ UNCHANGED <<lisRunning, mouse_listener>>
        ELSE /\ monPc' = [monPc EXCEPT ![g] = "watch"]
             /\ lisRunning' = [lisRunning EXCEPT ![g] = TRUE]
             /\ mouse_listener' = g
    /\ UNCHANGED <<is_recording, is_paused, start_time, stop_event,
                   pause_event, write_lock, camera, video_writer,
                   mouse_events, threads, camState, sinkState, metaFile, now,
                   pc, gen, saved, last, capPc, capCam, capSink, cbPc,
                   cbTime, nStarts, session, writes, nEvents,
                   app_is_recording, app_buttons, app_thread, app_after,
                   clip, metadata, zoom_points, current_frame_idx,
                   is_rendering, ui_state, cam, processed_frames, iter_clip,
                   renPc, edLast, camStart, nHeld, nUpdates, crop>>

\* recorder.py 125-128, 131-132: leave the with-block once the stop event is
\* set or the listener no longer runs; leaving it stops the listener.
MonExit(g) ==
    /\ monPc[g] = "watch"
    /\ stop_event \/ ~lisRunning[g]
    /\ lisRunning' = [lisRunning EXCEPT ![g] = FALSE]
    /\ monPc' = [monPc EXCEPT ![g] = "done"]
    /\ UNCHANGED <<is_recording, is_paused, start_time, stop_event,
                   pause_event, write_lock, camera, video_writer,
                   mouse_listener, mouse_events, threads, camState,
                   sinkState, metaFile, now, pc, gen, saved, last, capPc,
                   capCam, capSink, cbPc, cbTime, nStarts, session, writes,
                   nEvents, app_is_recording, app_buttons, app_thread,
                   app_after, clip, metadata, zoom_points, current_frame_idx,
                   is_rendering, ui_state, cam, processed_frames, iter_clip,
                   renPc, edLast, camStart, nHeld, nUpdates, crop>>

\* ------------------------------------------------- on_event of listener g
\* recorder.py 107: what lets on_event go on to record the event.
Accepting == is_recording /\ ~is_paused /\ ~stop_event

\* recorder.py 107: the callback goes on only if the session is recording,
\* not paused and not being stopped; otherwise it returns at once.
OnEventCheck(g) ==
    /\ lisRunning[g]
    /\ cbPc[g] = "idle"
    /\ nEvents < MaxLog
    /\ Accepting
    /\ cbPc' = [cbPc EXCEPT ![g] = "checked"]
    /\ nEvents' = nEvents + 1
    /\ UNCHANGED <<is_recording, is_paused, start_time, stop_event,
                   pause_event, write_lock, camera, video_writer,
                   mouse_listener, mouse_events, threads, camState,
                   sinkState, lisRunning, metaFile, now, pc, gen, saved,
                   last, capPc, capCam, capSink, monPc, cbTime, nStarts,
                   session, writes, app_is_recording, app_buttons,
                   app_thread, app_after, clip, metadata, zoom_points,
                   current_frame_idx, is_rendering, ui_state, cam,
                   processed_frames, iter_clip, renPc, edLast, camStart,
                   nHeld, nUpdates, crop>>

\* recorder.py 108: elapsed = time.time() - self.start_time.
OnEventStamp(g) ==
    /\ cbPc[g] = "checked"
    /\ \E t \in ClockReadings :
        /\ now' = t
        /\ cbTime' = [cbTime EXCEPT ![g] = t - start_time]
    /\ cbPc' = [cbPc EXCEPT ![g] = "stamped"]
    /\ UNCHANGED <<is_recording, is_paused, start_time, stop_event,
                   pause_event, write_lock, camera, video_writer,
                   mouse_listener, mouse_events, threads, camState,
                   sinkState, lisRunning, metaFile, pc, gen, saved, last,
                   capPc, capCam, capSink, monPc, nStarts, session, writes,
                   nEvents, app_is_recording, app_buttons, app_thread,
                   app_after, clip, metadata, zoom_points, current_frame_idx,
                   is_rendering, ui_state, cam, processed_frames, iter_clip,
                   renPc, edLast, camStart, nHeld, nUpdates, crop>>

\* recorder.py 109-113: self.mouse_events.append({...}).
OnEventAppend(g) ==
    /\ cbPc[g] = "stamped"
    /\ mouse_events' = Append(mouse_events, [time |-> cbTime[g], by |-> g])
    /\ cbPc' = [cbPc EXCEPT ![g] = "idle"]
    /\ cbTime' = [cbTime EXCEPT ![g] = 0]
    /\ UNCHANGED <<is_recording, is_paused, start_time, stop_event,
                   pause_event, write_lock, camera, video_writer,
                   mouse_listener, threads, camState, sinkState, lisRunning,
                   metaFile, now, pc, gen, saved, last, capPc, capCam,
                   capSink, monPc, nStarts, session, writes, nEvents,
                   app_is_recording, app_buttons, app_thread, app_after,
                   clip, metadata, zoom_points, current_frame_idx,
                   is_rendering, ui_state, cam, processed_frames, iter_clip,
                   renPc, edLast, camStart, nHeld, nUpdates, crop>>

\* ------------------------------------------------------------ specification
CallerStep(c) ==
    \/ StartCall(c) \/ StartWriter(c) \/ StartReset(c) \/ StartSpawn(c)
    \/ CleanupWriter(c) \/ CleanupCamera(c)
    \/ StopCall(c) \/ StopWriter(c) \/ StopCamStop(c) \/ StopCamNone(c)
    \/ StopSave(c) \/ StopReset(c)
    \/ Pause(c) \/ Resume(c)

CaptureStep(g) == CapLoop(g) \/ CapFrame(g) \/ CapWrite(g) \/ CapFinally(g)

InputStep(g) ==
    \/ MonEnter(g) \/ MonExit(g)
    \/ OnEventCheck(g) \/ OnEventStamp(g) \/ OnEventAppend(g)

\* The scheduling model of the specification (section 5): the caller's own
\* thread issues the four operations, next to the workers of every start.
Next == CallerStep(1) \/ (\E g \in Gens : CaptureStep(g) \/ InputStep(g))

Spec == Init /\ [][Next]_vars

\* What main_app.py does: start() and stop() run on threads of their own
\* (start_thread, stop_thread), so calls overlap.  The capture workers run
\* with them; the input threads stay where start() left them.  (The capture
\* worker and the input threads write disjoint variables and neither reads
\* what the other writes, so leaving one side out removes no state of the
\* other side.)
NextCallers ==
    (\E c \in Callers : CallerStep(c)) \/ (\E g \in Gens : CaptureStep(g))

SpecCallers == Init /\ [][NextCallers]_vars

\* ------------------------------------------------------------ ControlPanel
\* A caller thread the panel can start its next thread on.
FreeThread(c) ==
    /\ pc[c] = "idle" /\ app_thread[c] = "none"
    /\ \A d \in Callers : d < c => ~(pc[d] = "idle" /\ app_thread[d] = "none")

\* Threads of the panel that have not ended and callbacks not yet run.
Pending == Len(app_after) + Cardinality({c \in Callers : app_thread[c] # "none"})

\* main_app.py 61-74, start_recording behind the Start button: unless the
\* panel's own flag says recording, start a thread that calls start().
ClickStart(c) ==
    /\ app_buttons = "ready"
    /\ ~app_is_recording
    /\ FreeThread(c) /\ Pending < MaxPending
    /\ app_thread' = [app_thread EXCEPT ![c] = "start"]
    /\ UNCHANGED <<is_recording, is_paused, start_time, stop_event,
                   pause_event, write_lock, camera, video_writer,
                   mouse_listener, mouse_events, threads, camState,
                   sinkState, lisRunning, metaFile, now, pc, gen, saved,
                   last, capPc, capCam, capSink, monPc, cbPc, cbTime,
                   nStarts, session, writes, nEvents, app_is_recording,
                   app_buttons, app_after, clip, metadata, zoom_points,
                   current_frame_idx, is_rendering, ui_state, cam,
                   processed_frames, iter_clip, renPc, edLast, camStart,
                   nHeld, nUpdates, crop>>

\* main_app.py 70: start_thread calls self.recorder.start().
PanelStart(c) == app_thread[c] = "start" /\ StartCall(c)

\* main_app.py 76-91, _on_recording_started on the UI thread: on success set
\* the flag, disable Start and enable Pause and Stop.
OnRecordingStarted ==
    /\ app_after # <<>> /\ Head(app_after).op = "start"
    /\ app_after' = Tail(app_after)
    /\ IF Head(app_after).success
       THEN app_is_recording' = TRUE /\ app_buttons' = "recording"
       ELSE UNCHANGED <<app_is_recording, app_buttons>>
    /\ UNCHANGED <<is_recording, is_paused, start_time, stop_event,
                   pause_event, write_lock, camera, video_writer,
                   mouse_listener, mouse_events, threads, camState,
                   sinkState, lisRunning, metaFile, now, pc, gen, saved,
                   last, capPc, capCam, capSink, monPc, cbPc, cbTime,
                   nStarts, session, writes, nEvents, app_thread, clip,
                   metadata, zoom_points, current_frame_idx, is_rendering,
                   ui_state, cam, processed_frames, iter_clip, renPc, edLast,
                   camStart, nHeld, nUpdates, crop>>

\* main_app.py 93-111, stop_recording behind the Stop button: disable the
\* three buttons and start a thread that calls stop().
ClickStop(c) ==
    /\ app_buttons = "recording"
    /\ app_is_recording
    /\ FreeThread(c) /\ Pending < MaxPending
    /\ app_buttons' = "stopping"
    /\ app_thread' = [app_thread EXCEPT ![c] = "stop"]
    /\ UNCHANGED <<is_recording, is_paused, start_time, stop_event,
                   pause_event, write_lock, camera, video_writer,
                   mouse_listener, mouse_events, threads, camState,
                   sinkState, lisRunning, metaFile, now, pc, gen, saved,
                   last, capPc, capCam, capSink, monPc, cbPc, cbTime,
                   nStarts, session, writes, nEvents, app_is_recording,
                   app_after, clip, metadata, zoom_points, current_frame_idx,
                   is_rendering, ui_state, cam, processed_frames, iter_clip,
                   renPc, edLast, camStart, nHeld, nUpdates, crop>>

\* main_app.py 109: stop_thread calls self.recorder.stop().
PanelStop(c) == app_thread[c] = "stop" /\ StopCall(c)

\* main_app.py 113-140, _on_recording_stopped on the UI thread: clear the
\* flag and reset the buttons (_reset_ui, 184-192), whatever stop() returned.
OnRecordingStopped ==
    /\ app_after # <<>> /\ Head(app_after).op = "stop"
    /\ app_after' = Tail(app_after)
    /\ app_is_recording' = FALSE
    /\ app_buttons' = "ready"
    /\ UNCHANGED <<is_recording, is_paused, start_time, stop_event,
                   pause_event, write_lock, camera, video_writer,
                   mouse_listener, mouse_events, threads, camState,
                   sinkState, lisRunning, metaFile, now, pc, gen, saved,
                   last, capPc, capCam, capSink, monPc, cbPc, cbTime,
                   nStarts, session, writes, nEvents, app_thread, clip,
                   metadata, zoom_points, current_frame_idx, is_rendering,
                   ui_state, cam, processed_frames, iter_clip, renPc, edLast,
                   camStart, nHeld, nUpdates, crop>>

\* main_app.py 142-160, toggle_pause behind the Pause button: resume() if the
\* recorder is paused, else pause(), on the UI thread.
TogglePause(c) ==
    /\ app_buttons = "recording"
    /\ app_is_recording
    /\ IF is_paused THEN Resume(c) ELSE Pause(c)

\* The control panel: its buttons, its threads inside start() and stop(),
\* its callbacks, and the capture workers of every start.
PanelStep(c) ==
    \/ ClickStart(c) \/ PanelStart(c)
    \/ StartWriter(c) \/ StartReset(c) \/ StartSpawn(c)
    \/ CleanupWriter(c) \/ CleanupCamera(c)
    \/ ClickStop(c) \/ PanelStop(c)
    \/ StopWriter(c) \/ StopCamStop(c) \/ StopCamNone(c)
    \/ StopSave(c) \/ StopReset(c)
    \/ TogglePause(c)

NextPanel ==
    \/ \E c \in Callers : PanelStep(c)
    \/ OnRecordingStarted
    \/ OnRecordingStopped
    \/ \E g \in Gens : CaptureStep(g)

SpecPanel == Init /\ [][NextPanel]_vars

\* ================================================================ editor
\* Times are in ticks of a tenth of a second, so that the times the
\* specification names (1.2 s, 9.8 s, 10.1 s) are integers.
ZOOM_LEVEL == 2              \* editor.py 21: 2.0
SMOOTHING == <<2, 25>>       \* editor.py 22: 0.08 as a fraction
ZOOM_DURATION == 25          \* editor.py 23: 2.5 s
AI_CLICK_COOLDOWN == ZOOM_DURATION

Press(t) == [type |-> "click_press", time |-> t, x |-> 7, y |-> 7]
Release(t) == [type |-> "click_release", time |-> t, x |-> 7, y |-> 7]
Move(t, px, py) == [type |-> "move", time |-> t, x |-> px, y |-> py]

\* The clips a project is loaded from: a 14 s clip at 10 frames a second and
\* a 3 s clip at 5 frames a second with odd sides.
Clips == {[duration |-> 140, fps |-> 10, w |-> 1920, h |-> 1080],
          [duration |-> 30, fps |-> 5, w |-> 5, h |-> 3]}

\* All sequences over S of length up to n.
SeqsUpTo(S, n) == UNION {[1..k -> S] : k \in 0..n}

\* Metadata files for the zoom planner: every list of up to MaxEvents of
\* these events, in any order, and the four clicks of the specification.
PlannerEvents == {Press(0), Press(10), Press(12), Press(40), Release(25),
                  Move(25, 500, 300)}
PlannerFiles ==
    SeqsUpTo(PlannerEvents, MaxEvents)
        \cup {<<Press(0), Press(10), Press(12), Press(40)>>}

\* main() with the default project files present (editor.py 436-470): the
\* clip and the metadata are set on the new EditorApp.
Loaded(clips, files) ==
    /\ clip \in clips /\ metadata \in files /\ zoom_points = <<>>
    /\ current_frame_idx = 0 /\ is_rendering = FALSE /\ ui_state = "normal"
    /\ cam = NoCamera /\ processed_frames = 0 /\ iter_clip = NoClip
    /\ renPc = "idle"
    /\ edLast = Did("none", <<>>, <<>>, 0)
    /\ camStart = NoPoint /\ nHeld = 0 /\ nUpdates = 0 /\ crop = NoCrop

\* editor.py 86: int(duration * fps), the duration being in ticks here.
TotalFrames(c) == (c.duration * c.fps) \div 10

\* editor.py 244, 379: frame index / fps, in ticks.
FrameTime(i, c) == (i * 10) \div c.fps

\* Positions the timeline slider is dragged to.
SliderStops == {0, 6, 12}

Contains(seq, t) == \E i \in 1..Len(seq) : seq[i] = t
Elements(seq) == {seq[i] : i \in 1..Len(seq)}

\* Wrong merges and scans, to tell the right ones from.
MergedReplacing(old, new) == new
KeepOrder(seq) == seq
KeepAll(points, c) == points
RECURSIVE EveryPress(_, _, _)
EveryPress(events, i, last_zoom_time) ==
    IF i > Len(events) THEN <<>>
    ELSE IF events[i].type = "click_press"
         THEN <<events[i].time>> \o EveryPress(events, i + 1, events[i].time)
         ELSE EveryPress(events, i + 1, last_zoom_time)

\* list.sort(): insert each element into the sorted rest.
RECURSIVE Insert(_, _)
Insert(t, sorted) ==
    IF sorted = <<>> THEN <<t>>
    ELSE IF t <= Head(sorted) THEN <<t>> \o sorted
    ELSE <<Head(sorted)>> \o Insert(t, Tail(sorted))

RECURSIVE Sort(_)
Sort(seq) == IF seq = <<>> THEN <<>> ELSE Insert(Head(seq), Sort(Tail(seq)))

\* sorted(list(set(...))): the elements of a set in ascending order.
RECURSIVE Sorted(_)
Sorted(S) ==
    IF S = {} THEN <<>>
    ELSE LET m == CHOOSE t \in S : \A u \in S : t <= u
         IN  <<m>> \o Sorted(S \ {m})

\* editor.py 235-238: the slider, while it is enabled, moved to frame val.
OnSliderChange(val) ==
    /\ ui_state = "normal"
    /\ clip # NoClip /\ ~is_rendering
    /\ val \in 0..(TotalFrames(clip) - 1)
    /\ current_frame_idx' = val
    /\ UNCHANGED <<is_recording, is_paused, start_time, stop_event,
                   pause_event, write_lock, camera, video_writer,
                   mouse_listener, mouse_events, threads, camState,
                   sinkState, lisRunning, metaFile, now, pc, gen, saved,
                   last, capPc, capCam, capSink, monPc, cbPc, cbTime,
                   nStarts, session, writes, nEvents, app_is_recording,
                   app_buttons, app_thread, app_after, clip, metadata,
                   zoom_points, is_rendering, ui_state, cam,
                   processed_frames, iter_clip, renPc, edLast, camStart,
                   nHeld, nUpdates, crop>>

\* editor.py 240-249: add the current time unless it is in the list.
AddZoomPoint ==
    /\ ui_state = "normal"
    /\ clip # NoClip
    /\ LET current_time == FrameTime(current_frame_idx, clip)
       IN  /\ zoom_points' = IF Contains(zoom_points, current_time)
                              THEN zoom_points
                              ELSE Sort(Append(zoom_points, current_time))
           /\ edLast' = Did("add", <<current_time>>, zoom_points, 0)
    /\ UNCHANGED <<is_recording, is_paused, start_time, stop_event,
                   pause_event, write_lock, camera, video_writer,
                   mouse_listener, mouse_events, threads, camState,
                   sinkState, lisRunning, metaFile, now, pc, gen, saved,
                   last, capPc, capCam, capSink, monPc, cbPc, cbTime,
                   nStarts, session, writes, nEvents, app_is_recording,
                   app_buttons, app_thread, app_after, clip, metadata,
                   current_frame_idx, is_rendering, ui_state, cam,
                   processed_frames, iter_clip, renPc, camStart, nHeld,
                   nUpdates, crop>>

\* editor.py 251-255: clear after the user confirmed.
ClearZoomPoints ==
    /\ ui_state = "normal"
    /\ \E yes \in BOOLEAN :
          /\ zoom_points' = IF yes THEN <<>> ELSE zoom_points
          /\ edLast' = Did("clear", <<>>, zoom_points, 0)
    /\ UNCHANGED <<is_recording, is_paused, start_time, stop_event,
                   pause_event, write_lock, camera, video_writer,
                   mouse_listener, mouse_events, threads, camState,
                   sinkState, lisRunning, metaFile, now, pc, gen, saved,
                   last, capPc, capCam, capSink, monPc, cbPc, cbTime,
                   nStarts, session, writes, nEvents, app_is_recording,
                   app_buttons, app_thread, app_after, clip, metadata,
                   current_frame_idx, is_rendering, ui_state, cam,
                   processed_frames, iter_clip, renPc, camStart, nHeld,
                   nUpdates, crop>>

\* editor.py 262-268: the scan from event i on.
RECURSIVE SuggestedPoints(_, _, _)
SuggestedPoints(events, i, last_zoom_time) ==
    IF i > Len(events) THEN <<>>
    ELSE IF /\ events[i].type = "click_press"
            /\ events[i].time >= last_zoom_time + AI_CLICK_COOLDOWN
         THEN <<events[i].time>> \o SuggestedPoints(events, i + 1, events[i].time)
         ELSE SuggestedPoints(events, i + 1, last_zoom_time)

\* editor.py 275: the suggested points before the end of the clip.
ValidPoints(points, c) == SelectSeq(points, LAMBDA t : t < c.duration)

\* editor.py 282: sorted(list(set(self.zoom_points + valid_points))).
Merged(old, new) == Sorted(Elements(old \o new))

\* editor.py 257-287: without a clip or metadata, without a suggested point
\* and without a valid point nothing changes and no count is reported (-1).
AiSuggestZooms ==
    /\ ui_state = "normal"
    /\ LET suggested_points ==
               SuggestedPoints(metadata, 1, -AI_CLICK_COOLDOWN)
           valid_points == ValidPoints(suggested_points, clip)
           merged == Merged(zoom_points, valid_points)
       IN  IF clip = NoClip \/ metadata = <<>>
           THEN /\ edLast' = Did("suggest", <<>>, zoom_points, -1)
                /\ UNCHANGED zoom_points
           ELSE IF valid_points = <<>>
           THEN /\ edLast' = Did("suggest", <<>>, zoom_points, -1)
                /\ UNCHANGED zoom_points
           ELSE /\ zoom_points' = merged
                /\ edLast' = Did("suggest", valid_points, zoom_points,
                                 Len(merged) - Len(zoom_points))
    /\ UNCHANGED <<is_recording, is_paused, start_time, stop_event,
                   pause_event, write_lock, camera, video_writer,
                   mouse_listener, mouse_events, threads, camState,
                   sinkState, lisRunning, metaFile, now, pc, gen, saved,
                   last, capPc, capCam, capSink, monPc, cbPc, cbTime,
                   nStarts, session, writes, nEvents, app_is_recording,
                   app_buttons, app_thread, app_after, clip, metadata,
                   current_frame_idx, is_rendering, ui_state, cam,
                   processed_frames, iter_clip, renPc, camStart, nHeld,
                   nUpdates, crop>>

\* The zoom planner on a loaded project.
InitPlanner == InitRecorder /\ Loaded(Clips, PlannerFiles)

NextPlanner ==
    \/ \E val \in SliderStops : OnSliderChange(val)
    \/ AddZoomPoint
    \/ ClearZoomPoints
    \/ AiSuggestZooms

SpecPlanner == InitPlanner /\ [][NextPlanner]_vars

\* ---------------------------------------------------------------- Camera
\* Positions and zooms are fractions, kept as integers in units of 1/Scale
\* (of a pixel, of zoom 1.0).  Scale is even and holds SMOOTHING's
\* denominator MaxUpdates times, so that half pixels are exact and so are
\* MaxUpdates calls of update(); past that update() rounds down.
Scale == 2 * (SMOOTHING[2] ^ MaxUpdates)

Max(a, b) == IF a >= b THEN a ELSE b
Min(a, b) == IF a <= b THEN a ELSE b

\* int(n / d) for d > 0: Python's int() drops the fraction, towards zero.
Trunc(n, d) == IF n >= 0 THEN n \div d ELSE -((-n) \div d)

\* editor.py 30-34: Camera(screen_width, screen_height).
NewCamera(w, h) ==
    [screen_width |-> w, screen_height |-> h,
     x |-> (w * Scale) \div 2, y |-> (h * Scale) \div 2, zoom |-> Scale,
     target_x |-> (w * Scale) \div 2, target_y |-> (h * Scale) \div 2,
     target_zoom |-> Scale]

\* Wrong camera steps, to tell the right ones from.
CameraJump(c) ==
    [c EXCEPT !.x = c.target_x, !.y = c.target_y, !.zoom = c.target_zoom]
CameraSetTargetUnclamped(c, tx, ty, tz) ==
    [c EXCEPT !.target_x = tx, !.target_y = ty, !.target_zoom = tz]
Unclamped(origin, len, side) == origin
CropSideHalved(len, zoom) == Trunc(len * Scale, 2 * zoom)

\* editor.py 38-40: v += (target - v) * SMOOTHING.
Towards(v, target) == v + ((target - v) * SMOOTHING[1]) \div SMOOTHING[2]

\* editor.py 36-40: Camera.update.
CameraUpdate(c) ==
    [c EXCEPT !.x = Towards(c.x, c.target_x),
              !.y = Towards(c.y, c.target_y),
              !.zoom = Towards(c.zoom, c.target_zoom)]

\* editor.py 42-46: Camera.set_target.
CameraSetTarget(c, tx, ty, tz) ==
    [c EXCEPT !.target_x = Max(0, Min(tx, c.screen_width * Scale)),
              !.target_y = Max(0, Min(ty, c.screen_height * Scale)),
              !.target_zoom = Max(Scale, tz)]

\* editor.py 54-55: int(w / self.zoom).
CropSide(len, zoom) == Trunc(len * Scale, zoom)

\* editor.py 56-57: int(self.x - crop_w / 2).
CropOrigin(pos, side) == Trunc(2 * pos - side * Scale, 2 * Scale)

\* editor.py 60-61: max(0, min(crop_x, w - crop_w)).
ClampOrigin(origin, len, side) == Max(0, Min(origin, len - side))

\* editor.py 53-70: the crop window of a w x h frame and what is returned:
\* the frame itself if the crop is empty, else the crop resized to w x h.
ProcessedFrame(c, w, h) ==
    LET crop_w == CropSide(w, c.zoom)
        crop_h == CropSide(h, c.zoom)
    IN  [crop_x |-> ClampOrigin(CropOrigin(c.x, crop_w), w, crop_w),
         crop_y |-> ClampOrigin(CropOrigin(c.y, crop_h), h, crop_h),
         crop_w |-> crop_w, crop_h |-> crop_h, w |-> w, h |-> h,
         out |-> IF crop_w = 0 \/ crop_h = 0 THEN "original" ELSE "resized"]

Started(c, tx, ty, tz) ==
    [x |-> c.x, y |-> c.y, zoom |-> c.zoom,
     arg_x |-> tx, arg_y |-> ty, arg_zoom |-> tz]

\* Frame sizes, and the coordinates and zooms a caller passes, in half
\* pixels and halves of zoom 1.0: inside the frame, on its edge, outside.
FrameSizes == {<<4, 2>>, <<5, 3>>}
HalfPixels == {-6, 3, 18}
HalfZooms == {1, 2, 4}
Half(n) == n * (Scale \div 2)

\* Camera(w, h) created by hand.
CameraCreate(w, h) ==
    /\ cam = NoCamera /\ renPc = "idle"
    /\ cam' = NewCamera(w, h)
    /\ camStart' = Started(NewCamera(w, h), (w * Scale) \div 2,
                           (h * Scale) \div 2, Scale)
    /\ nHeld' = 0 /\ nUpdates' = 0
    /\ UNCHANGED <<is_recording, is_paused, start_time, stop_event,
                   pause_event, write_lock, camera, video_writer,
                   mouse_listener, mouse_events, threads, camState,
                   sinkState, lisRunning, metaFile, now, pc, gen, saved,
                   last, capPc, capCam, capSink, monPc, cbPc, cbTime,
                   nStarts, session, writes, nEvents, app_is_recording,
                   app_buttons, app_thread, app_after, clip, metadata,
                   zoom_points, current_frame_idx, is_rendering, ui_state,
                   processed_frames, iter_clip, renPc, edLast, crop>>

\* camera.set_target(tx, ty, tz).
SetTarget(tx, ty, tz) ==
    /\ cam # NoCamera /\ renPc = "idle"
    /\ cam' = CameraSetTarget(cam, tx, ty, tz)
    /\ camStart' = Started(cam, tx, ty, tz)
    /\ nHeld' = 0
    /\ UNCHANGED <<is_recording, is_paused, start_time, stop_event,
                   pause_event, write_lock, camera, video_writer,
                   mouse_listener, mouse_events, threads, camState,
                   sinkState, lisRunning, metaFile, now, pc, gen, saved,
                   last, capPc, capCam, capSink, monPc, cbPc, cbTime,
                   nStarts, session, writes, nEvents, app_is_recording,
                   app_buttons, app_thread, app_after, clip, metadata,
                   zoom_points, current_frame_idx, is_rendering, ui_state,
                   processed_frames, iter_clip, renPc, edLast, nUpdates,
                   crop>>

\* camera.update().
Update ==
    /\ cam # NoCamera /\ renPc = "idle"
    /\ nUpdates < MaxUpdates
    /\ cam' = CameraUpdate(cam)
    /\ nHeld' = nHeld + 1 /\ nUpdates' = nUpdates + 1
    /\ UNCHANGED <<is_recording, is_paused, start_time, stop_event,
                   pause_event, write_lock, camera, video_writer,
                   mouse_listener, mouse_events, threads, camState,
                   sinkState, lisRunning, metaFile, now, pc, gen, saved,
                   last, capPc, capCam, capSink, monPc, cbPc, cbTime,
                   nStarts, session, writes, nEvents, app_is_recording,
                   app_buttons, app_thread, app_after, clip, metadata,
                   zoom_points, current_frame_idx, is_rendering, ui_state,
                   processed_frames, iter_clip, renPc, edLast, camStart,
                   crop>>

\* camera.process_frame(frame) on a frame of w x h pixels.
ProcessFrame(w, h) ==
    /\ cam # NoCamera /\ renPc = "idle"
    /\ crop' = ProcessedFrame(cam, w, h)
    /\ UNCHANGED <<is_recording, is_paused, start_time, stop_event,
                   pause_event, write_lock, camera, video_writer,
                   mouse_listener, mouse_events, threads, camState,
                   sinkState, lisRunning, metaFile, now, pc, gen, saved,
                   last, capPc, capCam, capSink, monPc, cbPc, cbTime,
                   nStarts, session, writes, nEvents, app_is_recording,
                   app_buttons, app_thread, app_after, clip, metadata,
                   zoom_points, current_frame_idx, is_rendering, ui_state,
                   cam, processed_frames, iter_clip, renPc, edLast, camStart,
                   nHeld, nUpdates>>

\* A camera driven by hand from its construction.
NextCamera ==
    \/ \E s \in FrameSizes : CameraCreate(s[1], s[2])
    \/ \E tx, ty \in HalfPixels, tz \in HalfZooms :
          SetTarget(Half(tx), Half(ty), Half(tz))
    \/ Update

SpecCamera == Init /\ [][NextCamera]_vars

\* Cameras anywhere, also outside their frame, at zoom 1.0 and above.
CropCameras ==
    {[NewCamera(s[1], s[2]) EXCEPT !.x = Half(px), !.y = Half(py),
                                   !.zoom = Half(z)] :
        s \in FrameSizes, px \in HalfPixels \cup {0, 4, 5}, py \in HalfPixels \cup {2},
        z \in {z2 \in HalfZooms \cup {3, 12} : z2 >= 2}}

\* process_frame as a function of the camera and the frame size.
InitCrop ==
    /\ InitRecorder
    /\ clip = NoClip /\ metadata = <<>> /\ zoom_points = <<>>
    /\ current_frame_idx = 0 /\ is_rendering = FALSE /\ ui_state = "disabled"
    /\ cam \in CropCameras /\ processed_frames = 0 /\ iter_clip = NoClip
    /\ renPc = "idle"
    /\ edLast = Did("none", <<>>, <<>>, 0)
    /\ camStart = NoPoint /\ nHeld = 0 /\ nUpdates = 0 /\ crop = NoCrop

NextCrop == \E s \in FrameSizes : ProcessFrame(s[1], s[2])

SpecCrop == InitCrop /\ [][NextCrop]_vars

\* ---------------------------------------------------------------- render
\* editor.py 324-332: the move event found first from the end of the list
\* among those not later than t, or no position.
MoveIndexAt(events, t) ==
    LET upTo == {k \in 1..Len(events) :
                    events[k].time <= t /\ events[k].type = "move"}
    IN  IF upTo = {} THEN 0 ELSE CHOOSE k \in upTo : \A j \in upTo : j <= k

\* editor.py 382: any(zt <= current_time < zt + ZOOM_DURATION ...).
InZoom(t) ==
    \E k \in 1..Len(zoom_points) :
        zoom_points[k] <= t /\ t < zoom_points[k] + ZOOM_DURATION

\* editor.py 384-392: the arguments of set_target for the frame at time t.
TargetAt(t) ==
    LET k == MoveIndexAt(metadata, t)
        centre == [x |-> (clip.w * Scale) \div 2, y |-> (clip.h * Scale) \div 2]
    IN  IF InZoom(t)
        THEN IF k = 0
             THEN [x |-> centre.x, y |-> centre.y, zoom |-> ZOOM_LEVEL * Scale]
             ELSE [x |-> metadata[k].x * Scale, y |-> metadata[k].y * Scale,
                   zoom |-> ZOOM_LEVEL * Scale]
        ELSE [x |-> centre.x, y |-> centre.y, zoom |-> Scale]

\* editor.py 334-360: the Render button; the user may decline to render
\* without zoom points or give no output file.
StartRendering ==
    /\ ui_state = "normal"
    /\ clip # NoClip /\ ~is_rendering
    /\ \E goOn \in BOOLEAN :
          IF goOn
          THEN is_rendering' = TRUE /\ ui_state' = "disabled" /\ renPc' = "begin"
          ELSE UNCHANGED <<is_rendering, ui_state, renPc>>
    /\ UNCHANGED <<is_recording, is_paused, start_time, stop_event,
                   pause_event, write_lock, camera, video_writer,
                   mouse_listener, mouse_events, threads, camState,
                   sinkState, lisRunning, metaFile, now, pc, gen, saved,
                   last, capPc, capCam, capSink, monPc, cbPc, cbTime,
                   nStarts, session, writes, nEvents, app_is_recording,
                   app_buttons, app_thread, app_after, clip, metadata,
                   zoom_points, current_frame_idx, cam, processed_frames,
                   iter_clip, edLast, camStart, nHeld, nUpdates, crop>>

\* editor.py 371-378: the render thread creates its camera and starts to
\* iterate the frames of the clip self.clip names at that moment.
RenderBegin ==
    /\ renPc = "begin"
    /\ iter_clip' = clip
    /\ cam' = NewCamera(clip.w, clip.h)
    /\ camStart' = Started(NewCamera(clip.w, clip.h), (clip.w * Scale) \div 2,
                           (clip.h * Scale) \div 2, Scale)
    /\ nHeld' = 0 /\ nUpdates' = 0 /\ crop' = NoCrop
    /\ processed_frames' = 0
    /\ renPc' = "frames"
    /\ UNCHANGED <<is_recording, is_paused, start_time, stop_event,
                   pause_event, write_lock, camera, video_writer,
                   mouse_listener, mouse_events, threads, camState,
                   sinkState, lisRunning, metaFile, now, pc, gen, saved,
                   last, capPc, capCam, capSink, monPc, cbPc, cbTime,
                   nStarts, session, writes, nEvents, app_is_recording,
                   app_buttons, app_thread, app_after, clip, metadata,
                   zoom_points, current_frame_idx, is_rendering, ui_state,
                   edLast>>

\* editor.py 378-396: one frame: set the target, update, process, append.
\* The frame comes from the iterated clip; fps, w and h are read from
\* self.clip, the zoom points and the metadata from self, every time.
RenderFrame ==
    /\ renPc = "frames" /\ processed_frames < TotalFrames(iter_clip)
    /\ LET current_time == FrameTime(processed_frames, clip)
           target == TargetAt(current_time)
           aimed == CameraSetTarget(cam, target.x, target.y, target.zoom)
       IN  /\ cam' = CameraUpdate(aimed)
           /\ camStart' = Started(cam, target.x, target.y, target.zoom)
           /\ nHeld' = 1 /\ nUpdates' = nUpdates + 1
           /\ crop' = ProcessedFrame(CameraUpdate(aimed), iter_clip.w, iter_clip.h)
           /\ processed_frames' = processed_frames + 1
    /\ UNCHANGED <<is_recording, is_paused, start_time, stop_event,
                   pause_event, write_lock, camera, video_writer,
                   mouse_listener, mouse_events, threads, camState,
                   sinkState, lisRunning, metaFile, now, pc, gen, saved,
                   last, capPc, capCam, capSink, monPc, cbPc, cbTime,
                   nStarts, session, writes, nEvents, app_is_recording,
                   app_buttons, app_thread, app_after, clip, metadata,
                   zoom_points, current_frame_idx, is_rendering, ui_state,
                   iter_clip, renPc, edLast>>

\* editor.py 405-422: the frames are written, or writing raises; either way
\* the completion is handed to the UI thread, and the thread ends and its
\* locals (the camera, the frame list, the iterator) with it.
RenderSave ==
    /\ renPc = "frames" /\ processed_frames = TotalFrames(iter_clip)
    /\ iter_clip' = NoClip
    /\ cam' = NoCamera /\ camStart' = NoPoint
    /\ nHeld' = 0 /\ nUpdates' = 0 /\ crop' = NoCrop
    /\ processed_frames' = 0
    /\ renPc' = "done"
    /\ UNCHANGED <<is_recording, is_paused, start_time, stop_event,
                   pause_event, write_lock, camera, video_writer,
                   mouse_listener, mouse_events, threads, camState,
                   sinkState, lisRunning, metaFile, now, pc, gen, saved,
                   last, capPc, capCam, capSink, monPc, cbPc, cbTime,
                   nStarts, session, writes, nEvents, app_is_recording,
                   app_buttons, app_thread, app_after, clip, metadata,
                   zoom_points, current_frame_idx, is_rendering, ui_state,
                   edLast>>

\* editor.py 424-429: _rendering_complete on the UI thread.
RenderingComplete ==
    /\ renPc = "done"
    /\ is_rendering' = FALSE /\ ui_state' = "normal" /\ renPc' = "idle"
    /\ UNCHANGED <<is_recording, is_paused, start_time, stop_event,
                   pause_event, write_lock, camera, video_writer,
                   mouse_listener, mouse_events, threads, camState,
                   sinkState, lisRunning, metaFile, now, pc, gen, saved,
                   last, capPc, capCam, capSink, monPc, cbPc, cbTime,
                   nStarts, session, writes, nEvents, app_is_recording,
                   app_buttons, app_thread, app_after, clip, metadata,
                   zoom_points, current_frame_idx, cam, processed_frames,
                   iter_clip, edLast, camStart, nHeld, nUpdates, crop>>

\* Metadata files for rendering: moves before, inside and after a zoom that
\* a click at 10 s starts, in any order.
RenderEvents == {Move(98, 500, 300), Move(110, 700, 400), Move(0, 100, 50),
                 Press(100)}
RenderFiles == SeqsUpTo(RenderEvents, MaxEvents)
RenderClips == {c \in Clips : c.w > 700}

\* Rendering a loaded project after the suggested zoom points were taken.
InitRender == InitRecorder /\ Loaded(RenderClips, RenderFiles)

NextRender ==
    \/ AiSuggestZooms
    \/ StartRendering
    \/ RenderBegin
    \/ RenderFrame
    \/ RenderSave
    \/ RenderingComplete

SpecRender == InitRender /\ [][NextRender]_vars

\* ------------------------------------------------------------ load_files
\* editor.py 170-233, File > Load Project Files (99-106), which no state of
\* the editor disables: the clip is replaced (201-202); then the metadata is
\* read (205-206), and if that raises nothing else changes; else the slider
\* and the four buttons are enabled (216-220) and the zoom points cleared
\* (223).  A cancelled dialog or a video that cannot be opened changes
\* nothing.
LoadFiles(cl, md) ==
    /\ clip' = cl
    /\ \E loaded \in BOOLEAN :
          IF loaded
          THEN /\ metadata' = md
               /\ ui_state' = "normal"
               /\ zoom_points' = <<>>
               /\ edLast' = Did("load", <<>>, zoom_points, 0)
          ELSE UNCHANGED <<metadata, ui_state, zoom_points, edLast>>
    /\ UNCHANGED <<is_recording, is_paused, start_time, stop_event,
                   pause_event, write_lock, camera, video_writer,
                   mouse_listener, mouse_events, threads, camState,
                   sinkState, lisRunning, metaFile, now, pc, gen, saved,
                   last, capPc, capCam, capSink, monPc, cbPc, cbTime,
                   nStarts, session, writes, nEvents, app_is_recording,
                   app_buttons, app_thread, app_after, current_frame_idx,
                   is_rendering, cam, processed_frames, iter_clip, renPc,
                   camStart, nHeld, nUpdates, crop>>

\* The projects the user picks from, two short clips and two event logs, and
\* the frames the slider is dragged to.
ProjectClips == {[duration |-> 10, fps |-> 3, w |-> 5, h |-> 3],
                 [duration |-> 5, fps |-> 4, w |-> 4, h |-> 2]}
ProjectFiles == {<<Press(0)>>, <<Move(0, 2, 1), Press(5)>>}
ProjectStops == {0, 1}

\* The editor as a whole: the planner, the render job and the File menu.
InitProject == InitRecorder /\ Loaded(ProjectClips, ProjectFiles)

NextProject ==
    \/ \E cl \in ProjectClips, md \in ProjectFiles : LoadFiles(cl, md)
    \/ \E val \in ProjectStops : OnSliderChange(val)
    \/ AddZoomPoint
    \/ ClearZoomPoints
    \/ AiSuggestZooms
    \/ StartRendering
    \/ RenderBegin
    \/ RenderFrame
    \/ RenderSave
    \/ RenderingComplete

SpecProject == InitProject /\ [][NextProject]_vars

\* -------------------------------------------------------------- properties
\* Everything except the record of the call that returned last.
stateButLast == <<recVars, envVars, pc, gen, saved, capPc, capCam, capSink, monPc,
                  cbPc, cbTime, histVars>>

\* Some caller is inside start(), or inside stop().
InStart(c) == pc[c] \in {"start_writer", "start_reset", "start_spawn",
                         "cleanup_writer", "cleanup_cam"}
InStop(c)  == pc[c] \in {"stop_writer", "stop_cam", "stop_cam_none",
                         "stop_save", "stop_reset"}
Quiescent  == \A c \in Callers : pc[c] = "idle"

\* C1: a stop() on an Idle session (never started, or stopped before) returns
\* failure and changes nothing: no handle is released, the metadata file is
\* not written, no field of the session changes, whatever calls came before.
C1_StopOnIdleHasNoEffect ==
    [][\A c \in Callers :
          (StopCall(c) /\ Idle) =>
              (last' = Returned("stop", "fail") /\ UNCHANGED stateButLast)]_vars

\* C1, reached: a session was started and stopped, and a further stop() has
\* returned failure.
C1_StopOnIdleSeen ==
    /\ last = Returned("stop", "fail")
    /\ Idle /\ Quiescent
    /\ session # 0 /\ metaFile # <<>>

\* C2: start() while Recording or Paused, pause() while Idle or Paused and
\* resume() while Idle or Recording return failure and leave the state, the
\* handles, the event log, the stop event, the pause gate and the thread
\* list as they were.
C2_InvalidCallsHaveNoEffect ==
    [][\A c \in Callers :
          /\ (StartCall(c) /\ (Recording \/ Paused)) =>
                (last' = Returned("start", "fail") /\ UNCHANGED stateButLast)
          /\ (Pause(c) /\ (Idle \/ Paused)) =>
                (last' = Returned("pause", "fail") /\ UNCHANGED stateButLast)
          /\ (Resume(c) /\ (Idle \/ Recording)) =>
                (last' = Returned("resume", "fail") /\ UNCHANGED stateButLast)]_vars

\* C2, reached: a pause() on a paused session has returned failure.
C2_PauseOnPausedSeen ==
    /\ last = Returned("pause", "fail")
    /\ Paused /\ ~pause_event
    /\ Quiescent

\* C3: a start() that got past the check on an Idle session and then failed
\* to acquire the camera or the writer returns failure with the session Idle,
\* with the handles it acquired released and without having spawned a worker;
\* none of its steps touches the event log, the stop event, the pause gate
\* or the thread list.
C3_FailedStartLeavesNothing ==
    [][\A c \in Callers :
          /\ CleanupCamera(c) =>
                /\ last' = Returned("start", "fail")
                /\ ~is_recording'
                /\ camState'[gen[c]] # "open"
                /\ sinkState'[gen[c]] # "open"
                /\ capPc'[gen[c]] = "unborn" /\ monPc'[gen[c]] = "unborn"
          /\ ((StartCall(c) /\ Idle) \/ StartWriter(c) \/ CleanupWriter(c)
                \/ CleanupCamera(c)) =>
                UNCHANGED <<mouse_events, stop_event, pause_event, is_paused,
                            threads>>]_vars

\* The steps of a stop() that is past its state check.
StopProgress(c) ==
    \/ StopWriter(c) \/ StopCamStop(c) \/ StopCamNone(c) \/ StopSave(c)
    \/ StopReset(c)

\* One caller and the capture workers, where the thread inside stop() keeps
\* running.  Nothing is assumed of the capture worker: get_latest_frame and
\* write are calls into a collaborator that may never return.
FairStop ==
    /\ Init
    /\ [][CallerStep(1) \/ (\E g \in Gens : CaptureStep(g))]_vars
    /\ WF_vars(StopProgress(1))

\* C4: every stop() that got past its state check goes on to release the
\* writer and then the camera and returns, whatever the workers do.
C4_StopAlwaysReleases ==
    InStop(1) ~> (pc[1] = "idle" /\ video_writer = None /\ camera = None)

\* C5: while one stop() is in progress a second stop() fails, so no two
\* stop() calls for a session are ever past the state check together, no
\* camera is stopped twice and no session's metadata is written twice.
C5_SecondStopFails ==
    /\ \A c1, c2 \in Callers :
          (c1 # c2 /\ InStop(c1) /\ InStop(c2)) => gen[c1] # gen[c2]
    /\ \A g \in Gens : camState[g] # "stopped_twice" /\ writes[g] <= 1

\* C6: the metadata file is written exactly once per session, by the stop()
\* that ends it: no session is written twice, a stop() that returns has
\* written, and nothing but stop()'s save step writes the file.
C6_OneWritePerSession ==
    [][/\ \A g \in Gens : writes'[g] <= 1
       /\ \A c \in Callers : (StopReset(c) /\ gen[c] # 0) => writes[gen[c]] >= 1
       /\ (metaFile' # metaFile \/ writes' # writes) =>
             \E c \in Callers : StopSave(c)]_vars

\* C7: a stop() whose metadata write failed still ends with both handles
\* released and the session Idle, and it returns failure; it returns success
\* only after a write that went through.
C7_StopReportsFailedWrite ==
    [][\A c \in Callers :
          StopReset(c) =>
              /\ ~is_recording' /\ camera' = None /\ video_writer' = None
              /\ (saved[c] = "no") => (last' = Returned("stop", "fail"))
              /\ (last' = Returned("stop", "ok")) => (saved[c] = "yes")]_vars

\* C8: an entry is appended to the event log only while the session is
\* Recording and the stop event is clear: never between the return of
\* pause() and resume(), never while Idle, never after stop() set the event.
C8_AppendOnlyWhileRecording ==
    [][Len(mouse_events') > Len(mouse_events) => (Recording /\ ~stop_event)]_vars

\* C9: the times of the event log are non-negative and non-decreasing in
\* append order.
C9_LogTimesOrdered ==
    \A i \in 1..Len(mouse_events) :
        /\ mouse_events[i].time >= 0
        /\ i > 1 => mouse_events[i - 1].time <= mouse_events[i].time

\* C10: between calls, the session holds an open camera and an open writer
\* if it is Recording or Paused, and holds neither if it is Idle.
C10_HandlesIffNotIdle ==
    Quiescent =>
        IF is_recording
        THEN camera # None /\ camState[camera] = "open" /\ SinkOpen
        ELSE camera = None /\ video_writer = None

\* The session state of the specification.  The code keeps no Stopping
\* state: the session is Stopping while a stop() that passed its check has
\* not yet reset is_recording.
SessionState ==
    IF ~is_recording THEN "Idle"
    ELSE IF \E c \in Callers : InStop(c) THEN "Stopping"
    ELSE IF is_paused THEN "Paused"
    ELSE "Recording"

\* C11: the session state changes only along Idle -> Recording,
\* Recording -> Paused, Paused -> Recording, Recording or Paused -> Stopping
\* and Stopping -> Idle.
C11_OnlySpecifiedEdges ==
    [][\/ SessionState' = SessionState
       \/ <<SessionState, SessionState'>> \in
              {<<"Idle", "Recording">>, <<"Recording", "Paused">>,
               <<"Paused", "Recording">>, <<"Recording", "Stopping">>,
               <<"Paused", "Stopping">>, <<"Stopping", "Idle">>}]_vars

\* C12: the points one suggest call selects are pairwise at least the
\* cooldown apart, for every metadata list (in time order or not).
C12_SuggestedPointsSpaced ==
    edLast.op = "suggest" =>
        \A i, j \in 1..Len(edLast.arg) :
            i < j => edLast.arg[j] - edLast.arg[i] >= AI_CLICK_COOLDOWN

Ordered(events) ==
    \A i, j \in 1..Len(events) : i < j => events[i].time <= events[j].time

\* C12, reached: a list in time order from which suggest selected two
\* points and passed over a click between them.
C12_TwoPointsSelected ==
    /\ edLast.op = "suggest" /\ Len(edLast.arg) >= 2 /\ Ordered(metadata)
    /\ \E i \in 1..Len(metadata) :
          /\ metadata[i].type = "click_press"
          /\ edLast.arg[1] < metadata[i].time
          /\ metadata[i].time < edLast.arg[2]

\* The time selected last before event i, the indices in I being selected.
LastSelectedBefore(I, i) ==
    IF \E j \in I : j < i
    THEN metadata[CHOOSE j \in I : j < i /\ \A k \in I : k < i => k <= j].time
    ELSE -AI_CLICK_COOLDOWN

\* I is the greedy selection: an event is in it if and only if it is a
\* click press at least the cooldown after the selection before it.
IsGreedy(I) ==
    \A i \in 1..Len(metadata) :
        i \in I <=> /\ metadata[i].type = "click_press"
                    /\ metadata[i].time >=
                           LastSelectedBefore(I, i) + AI_CLICK_COOLDOWN

\* C13: suggest selects the greedy selection without the times at or past
\* the end of the clip; clicks at 0, 1, 1.2 and 4 s give 0 and 4 s.
C13_SuggestIsGreedy ==
    edLast.op = "suggest" =>
        /\ \E I \in SUBSET (1..Len(metadata)) :
              /\ IsGreedy(I)
              /\ Len(edLast.arg) =
                     Cardinality({i \in I : metadata[i].time < clip.duration})
              /\ Elements(edLast.arg) =
                     {metadata[i].time : i \in
                          {k \in I : metadata[k].time < clip.duration}}
              /\ \A i, j \in 1..Len(edLast.arg) :
                     i < j => edLast.arg[i] < edLast.arg[j]
        /\ (/\ metadata = <<Press(0), Press(10), Press(12), Press(40)>>
            /\ clip.duration > 40) => edLast.arg = <<0, 40>>

\* C13, reached: the four clicks of the scenario, 0 and 4 s selected.
C13_ScenarioSelected ==
    /\ edLast.op = "suggest"
    /\ metadata = <<Press(0), Press(10), Press(12), Press(40)>>
    /\ edLast.arg = <<0, 40>> /\ zoom_points = <<0, 40>>

\* C14: after suggest the points are those from before together with the
\* selected ones, and the count it reports is the number of selected points
\* that were not there before.
C14_SuggestMergesAndCounts ==
    edLast.op = "suggest" =>
        /\ Elements(zoom_points) =
               Elements(edLast.before) \cup Elements(edLast.arg)
        /\ edLast.count # -1 =>
               edLast.count =
                   Cardinality(Elements(edLast.arg) \ Elements(edLast.before))

\* C14, reached: suggest selected two points, one of them in the list
\* already next to a point of another time, and reported 1.
C14_OneOfTwoWasPresent ==
    /\ edLast.op = "suggest" /\ edLast.count = 1 /\ Len(edLast.arg) = 2
    /\ Len(edLast.before) = 2 /\ Len(zoom_points) = 3

\* C14, reached: every selected point was in the list already; 0 reported.
C14_AllWerePresent ==
    /\ edLast.op = "suggest" /\ edLast.count = 0 /\ edLast.arg # <<>>

\* C15: the zoom points are strictly ascending; add of a time in the list
\* leaves the list as it was and add of a new time inserts that time.
C15_ZoomPointsAscending ==
    /\ \A i, j \in 1..Len(zoom_points) : i < j => zoom_points[i] < zoom_points[j]
    /\ edLast.op = "add" =>
          /\ Contains(edLast.before, edLast.arg[1]) =>
                 zoom_points = edLast.before
          /\ Elements(zoom_points) =
                 Elements(edLast.before) \cup {edLast.arg[1]}
          /\ Len(zoom_points) = Cardinality(Elements(zoom_points))

\* C15, reached: add put a time before the points of the list.
C15_AddedInFront ==
    /\ edLast.op = "add" /\ Len(edLast.before) >= 2
    /\ edLast.arg[1] < edLast.before[1] /\ zoom_points[1] = edLast.arg[1]

\* C17: the crop window process_frame computes lies inside the frame, for
\* every frame size, zoom of 1.0 and more and camera position.
C17_CropInsideFrame ==
    crop.out # "none" =>
        /\ 0 <= crop.crop_x /\ crop.crop_x + crop.crop_w <= crop.w
        /\ 0 <= crop.crop_y /\ crop.crop_y + crop.crop_h <= crop.h

\* C17, reached: a camera right of and below the frame, zoomed in; the
\* window was pushed back to the frame's far edges.
C17_OutsideCameraCropped ==
    /\ crop.out = "resized" /\ cam.zoom > Scale
    /\ cam.x > crop.w * Scale /\ cam.y > crop.h * Scale
    /\ crop.crop_w > 0 /\ crop.crop_x + crop.crop_w = crop.w
    /\ crop.crop_h > 0 /\ crop.crop_y + crop.crop_h = crop.h

\* The camera stands at zoom 1.0 on the centre of the frame it was given.
AtRest ==
    /\ cam.zoom = Scale
    /\ 2 * cam.x = crop.w * Scale /\ 2 * cam.y = crop.h * Scale

\* C18: at zoom 1.0 on the frame centre the crop window is the whole frame,
\* so what is returned is the frame resampled from all of itself at its own
\* size.
C18_IdentityAtRest ==
    (crop.out # "none" /\ AtRest) =>
        /\ crop.crop_x = 0 /\ crop.crop_y = 0
        /\ crop.crop_w = crop.w /\ crop.crop_h = crop.h

\* C18, reached: a frame of odd width and height, processed at rest.
C18_OddFrameAtRest ==
    /\ crop.out = "resized" /\ AtRest
    /\ crop.w % 2 = 1 /\ crop.h % 2 = 1

\* The distance left of d0 after n updates: d0 * (1 - SMOOTHING)^n.
Remaining(d0, n) ==
    (d0 \div (SMOOTHING[2] ^ n)) * ((SMOOTHING[2] - SMOOTHING[1]) ^ n)

\* C19: after n updates with the target held, the distance to the target in
\* x, in y and in zoom is the distance at the start times (1 - alpha)^n.
C19_GeometricApproach ==
    cam # NoCamera =>
        /\ cam.target_x - cam.x = Remaining(cam.target_x - camStart.x, nHeld)
        /\ cam.target_y - cam.y = Remaining(cam.target_y - camStart.y, nHeld)
        /\ cam.target_zoom - cam.zoom =
               Remaining(cam.target_zoom - camStart.zoom, nHeld)

\* C19, reached: two updates towards a target away in x, y and zoom, the
\* camera still short of it in all three.
C19_TwoStepsTaken ==
    /\ cam # NoCamera /\ nHeld = 2
    /\ camStart.x < cam.x /\ cam.x < cam.target_x
    /\ cam.target_y < cam.y /\ cam.y < camStart.y
    /\ camStart.zoom < cam.zoom /\ cam.zoom < cam.target_zoom

Within(v, lo, hi) == lo <= v /\ v <= hi
Clamped(v, lo, hi) == IF v < lo THEN lo ELSE IF v > hi THEN hi ELSE v

\* C20: set_target stores x and y clamped into the frame and the zoom raised
\* to 1.0 at least, and the camera's position, zoom and targets stay in
\* those ranges under set_target and update.
C20_CameraStaysInFrame ==
    cam # NoCamera =>
        /\ cam.target_x = Clamped(camStart.arg_x, 0, cam.screen_width * Scale)
        /\ cam.target_y = Clamped(camStart.arg_y, 0, cam.screen_height * Scale)
        /\ cam.target_zoom = IF camStart.arg_zoom < Scale THEN Scale
                             ELSE camStart.arg_zoom
        /\ Within(cam.x, 0, cam.screen_width * Scale)
        /\ Within(cam.target_x, 0, cam.screen_width * Scale)
        /\ Within(cam.y, 0, cam.screen_height * Scale)
        /\ Within(cam.target_y, 0, cam.screen_height * Scale)
        /\ cam.zoom >= Scale /\ cam.target_zoom >= Scale

\* C20, reached: a target left of the frame, below it and under zoom 1.0 was
\* asked for after the camera had moved, and the camera moved towards it.
C20_OutsideTargetAsked ==
    /\ cam # NoCamera /\ nHeld = 1 /\ nUpdates = 2
    /\ camStart.arg_x < 0 /\ camStart.arg_y > cam.screen_height * Scale
    /\ camStart.arg_zoom < Scale /\ camStart.zoom > Scale
    /\ cam.x < camStart.x /\ cam.y > camStart.y /\ cam.zoom < camStart.zoom

\* The time of the frame rendered last, and the move events not later.
LastFrameTime == FrameTime(processed_frames - 1, clip)
MovesUpTo(t) ==
    {k \in 1..Len(metadata) : metadata[k].type = "move" /\ metadata[k].time <= t}

\* The frame rendered last was aimed as the specification says: inside a
\* zoom at a move event of the greatest time not later than the frame (the
\* centre if there is none) with ZOOM_LEVEL, else at the centre with 1.0.
AimedAsSpecified ==
    LET t == LastFrameTime
        centre_x == (clip.w * Scale) \div 2
        centre_y == (clip.h * Scale) \div 2
    IN  IF \E k \in 1..Len(zoom_points) :
               zoom_points[k] <= t /\ t < zoom_points[k] + ZOOM_DURATION
        THEN /\ camStart.arg_zoom = ZOOM_LEVEL * Scale
             /\ IF MovesUpTo(t) = {}
                THEN camStart.arg_x = centre_x /\ camStart.arg_y = centre_y
                ELSE \E k \in MovesUpTo(t) :
                        /\ \A j \in MovesUpTo(t) :
                               metadata[j].time <= metadata[k].time
                        /\ camStart.arg_x = metadata[k].x * Scale
                        /\ camStart.arg_y = metadata[k].y * Scale
        ELSE /\ camStart.arg_zoom = Scale
             /\ camStart.arg_x = centre_x /\ camStart.arg_y = centre_y

\* C16: every rendered frame is aimed as the specification says.
C16_FrameTargets ==
    (renPc = "frames" /\ processed_frames > 0) => AimedAsSpecified

\* C16 for metadata in time order.
C16_FrameTargetsOrderedLog ==
    (renPc = "frames" /\ processed_frames > 0 /\ Ordered(metadata)) =>
        AimedAsSpecified

\* C16 for metadata in time order, reached: the scenario's frame at 10.1 s,
\* aimed at the move of 9.8 s with zoom 2.0.
C16_ScenarioFrameAimed ==
    /\ renPc = "frames" /\ processed_frames = 102
    /\ metadata = <<Move(98, 500, 300), Press(100)>> /\ zoom_points = <<100>>
    /\ camStart.arg_x = 500 * Scale /\ camStart.arg_y = 300 * Scale
    /\ camStart.arg_zoom = 2 * Scale


\* The steps of a start() that is past its state check.
StartProgress(c) ==
    \/ StartWriter(c) \/ StartReset(c) \/ StartSpawn(c)
    \/ CleanupWriter(c) \/ CleanupCamera(c)

\* One caller, the capture workers and the monitor threads, where every
\* thread keeps running: a call past its check goes on, get_latest_frame
\* and write return, a capture worker that waits for the write lock gets it
\* when it is free again and again, and a monitor thread enters its listener
\* and leaves it when its loop ends.
NextWorkers ==
    CallerStep(1) \/ (\E g \in Gens : CaptureStep(g) \/ MonEnter(g) \/ MonExit(g))

FairWorkers ==
    /\ Init
    /\ [][NextWorkers]_vars
    /\ WF_vars(StartProgress(1)) /\ WF_vars(StopProgress(1))
    /\ \A g \in Gens : SF_vars(CaptureStep(g)) /\ WF_vars(MonEnter(g) \/ MonExit(g))

\* C21: once stop() has set the stop event for session g, the capture worker
\* and the monitor thread of session g both end, given that every thread
\* keeps being scheduled and the collaborators' calls return.
C21_WorkersTerminate ==
    \A g \in Gens :
        (stop_event /\ InStop(1) /\ gen[1] = g)
            ~> (capPc[g] = "done" /\ monPc[g] = "done")

C23_NoCaptureFromStoppedCamera ==
    \A g \in Gens : capPc[g] = "in_capture" => camState[capCam[g]] = "open"

\* C24: while the session is Paused (pause() has returned, neither resume()
\* nor stop() has been called since) no capture worker starts to write a
\* frame and no capture worker releases the writer or the camera.
C24_PausedWorkerIsInert ==
    [][(Paused /\ \E g \in Gens : CaptureStep(g)) =>
           /\ \A g \in Gens : capPc'[g] = "in_write" => capPc[g] = "in_write"
           /\ UNCHANGED <<sinkState, camState, video_writer, camera>>]_vars

\* C25: a pause() or resume() that succeeds flips is_paused and sets the pause
\* gate to match, and changes nothing else: not the stop event, the camera,
\* the writer, the start time, the event log, the threads or any handle.
C25_PauseResumeTouchOnlyTheGate ==
    [][\A c \in Callers :
        ((Pause(c) \/ Resume(c)) /\ last'.ret = "ok") =>
            /\ is_paused' = ~is_paused
            /\ pause_event' = ~is_paused'
            /\ UNCHANGED <<is_recording, start_time, stop_event, write_lock,
                           camera, video_writer, mouse_listener, mouse_events,
                           threads, envVars, pc, gen, saved, capPc, capCam,
                           capSink, monPc, cbPc, cbTime, histVars>>]_vars

\* A resume() has succeeded on a session that holds its camera, its open
\* writer and its threads, while a capture worker waited at the gate.
C25_ResumedWithHandles ==
    /\ last = Returned("resume", "ok")
    /\ Recording /\ pause_event /\ ~stop_event
    /\ camera # None /\ SinkOpen /\ threads # None
    /\ \E g \in Gens : capPc[g] = "loop"

\* C26: only the capture worker of the session in progress goes round its
\* loop: a worker of an earlier session, also one whose join timed out, never
\* enters get_latest_frame() on the camera of a later session and never
\* writes a frame to the writer of a later session.
C26_OneWorkerPerSession ==
    \A g \in Gens :
        /\ capPc[g] = "in_capture" => capCam[g] = g
        /\ capPc[g] = "in_write" => capSink[g] = g

\* C27: when stop() clears the event log after it has written the metadata
\* file, the file holds the whole log in append order: no event was appended
\* between the write and the clearing, so none is lost.
C27_SavedLogIsComplete ==
    [][\A c \in Callers :
        (StopReset(c) /\ saved[c] = "yes") => metaFile = <<mouse_events>>]_vars

\* C28: when a start() returns success the session is Recording and not
\* paused, the event log is empty, the stop event is clear, the pause gate is
\* open, the camera and the writer this start() created are held and open and
\* its two threads are started; and the log a stop() writes to the metadata
\* file holds only events appended by the listener of the session it stops.
C28_FreshSessionAfterStart ==
    [][\A c \in Callers :
        /\ StartSpawn(c) =>
              /\ is_recording' /\ ~is_paused'
              /\ mouse_events' = <<>>
              /\ ~stop_event' /\ pause_event'
              /\ camera' = gen[c] /\ camState'[gen[c]] = "open"
              /\ video_writer' = gen[c] /\ sinkState'[gen[c]] = "open"
              /\ threads' = gen[c]
              /\ capPc'[gen[c]] = "loop" /\ monPc'[gen[c]] = "enter"
        /\ StopSave(c) =>
              \A i \in 1..Len(mouse_events) : mouse_events[i].by = gen[c]]_vars

\* C29: while render_video is inside its loop over the frames no step
\* changes the clip, the metadata or the zoom points the loop reads.
C29_RenderInputsFrozen ==
    [][(renPc = "frames") =>
           UNCHANGED <<clip, metadata, zoom_points>>]_vars

\* C30: the control panel never has two start() calls past the state check
\* at once, so no two cameras and no two writers are open together and at
\* most one capture worker is alive.
C30_OneStartInFlight ==
    /\ \A c, d \in Callers : (InStart(c) /\ InStart(d)) => c = d
    /\ \A g, h \in Gens : (camState[g] = "open" /\ camState[h] = "open") => g = h
    /\ \A g, h \in Gens :
          (capPc[g] \notin {"unborn", "done"} /\ capPc[h] \notin {"unborn", "done"})
              => g = h
====
